---- MODULE Spec2Model ----
(***************************************************************************)
(* Trenddit: the Reddit collector (collector/reddit_collector.py), its     *)
(* NLP helpers and the store it writes to, as a state machine.  Two        *)
(* ingestion runs of fetch_and_store execute concurrently against one      *)
(* posts table and one embeddings table.                                   *)
(***************************************************************************)
EXTENDS Integers, Sequences, FiniteSets, TLC

\* ---------------------------------------------------------------- bounds
\* the `limit` argument of fetch_and_store (100 by default)
Limit == 2

\* ---------------------------------------------------------------- domains
Runs == {"r1", "r2"}
Keywords == {"k1", "k2"}
\* ids of the submissions the source can return
SourceIds == {"a", "b", "c"}

None == "None"

\* submission.title / submission.selftext of the source's submissions
SubmissionTitle(sid) ==
    CASE sid = "a" -> "good"
      [] sid = "b" -> "bad"
      [] OTHER     -> ""

SubmissionSelftext(sid) == IF sid = "b" THEN "news" ELSE ""

\* ---------------------------------------------------------------- nlp
\* _sid.polarity_scores(text)["compound"], in ten-thousandths (VADER rounds
\* the compound score to four decimals)
polarity_scores(text) ==
    CASE text = "good\n"    -> 4404
      [] text = "bad\nnews" -> -5423
      [] OTHER              -> 0

sentiment_of_strict(text, compound) ==
    IF text = None \/ text = "" THEN <<0, "neutral">>
    ELSE IF compound > 500 THEN <<compound, "positive">>
    ELSE IF compound < -500 THEN <<compound, "negative">>
    ELSE <<compound, "neutral">>

\* the body of analyze_sentiment, `compound` being what polarity_scores gives
\* for the text: `if not text` and the thresholds 0.05 and -0.05
sentiment_of(text, compound) ==
    IF text = None \/ text = "" THEN <<0, "neutral">>
    ELSE IF compound >= 500 THEN <<compound, "positive">>
    ELSE IF compound <= -500 THEN <<compound, "negative">>
    ELSE <<compound, "neutral">>

\* nlp/sentiment.py analyze_sentiment: (compound, label)
analyze_sentiment(text) == sentiment_of(text, polarity_scores(text))

\* model.encode(text) followed by .tolist(): a stand-in vector of the text
embed_text(text) == <<Len(text)>>

\* ---------------------------------------------------------------- collector
PostId_const(sid) == "reddit:"

\* "id": f"reddit:{submission.id}"
PostId(sid) == "reddit:" \o sid

\* the dict built for one submission in the search loop
PostData(sid, kw) ==
    [id          |-> PostId(sid),
     source      |-> "reddit",
     source_id   |-> sid,
     keyword     |-> kw,
     title       |-> SubmissionTitle(sid),
     body        |-> SubmissionSelftext(sid),
     sentiment_score |-> None,
     sentiment_label |-> None,
     embedding   |-> None]

\* one iteration of the pre-processing loop
EnrichPost(p) ==
    LET text == p.title \o "\n" \o p.body
        sl   == analyze_sentiment(text)
    IN  [p EXCEPT !.sentiment_score = sl[1],
                  !.sentiment_label = sl[2],
                  !.embedding = embed_text(text)]

EnrichAll(ps) == [i \in 1..Len(ps) |-> EnrichPost(ps[i])]

\* ids_to_check = [p["id"] for p in posts_fetched]
IdsOf(ps) == {ps[i].id : i \in 1..Len(ps)}

SelectExisting_all(table, ids) == ids

\* select("id").in_("id", ids_to_check) on a table
SelectExisting(table, ids) == {p.id : p \in {q \in table : q.id \in ids}}

FilterNew_all(ps, existing) == ps

FilterNew_inverted(ps, existing) ==
    SelectSeq(ps, LAMBDA p : p.id \in existing)

\* for p in posts_fetched: if p["id"] not in existing_ids: append
FilterNew(ps, existing) ==
    SelectSeq(ps, LAMBDA p : p.id \notin existing)

AfterFilter_always(to_insert) == "insert"

\* if posts_to_insert: ... else: "All posts found were already in the database."
AfterFilter(to_insert) == IF to_insert # <<>> THEN "insert" ELSE "done"

\* emb_rows of the optional embeddings upsert
EmbRows(ps) ==
    LET withEmb == SelectSeq(ps, LAMBDA p : p.embedding # None)
    IN  [i \in 1..Len(withEmb) |->
            [post_id |-> withEmb[i].id, vector |-> withEmb[i].embedding]]

\* ---------------------------------------------------------------- store
\* the batch has two rows with one id, or a row whose id is in the table
KeyConflict(table, rows) ==
    \/ \E i, j \in 1..Len(rows) : i # j /\ rows[i].id = rows[j].id
    \/ \E i \in 1..Len(rows) : \E q \in table : q.id = rows[i].id

RowsOf(rows) == {rows[i] : i \in 1..Len(rows)}

\* bulk insert into posts (id is the primary key): all rows or none
StoreInsert(table, rows) ==
    IF KeyConflict(table, rows) THEN table ELSE table \cup RowsOf(rows)

\* upsert keyed by id: rows of the batch replace the stored rows, last wins
StoreUpsert(table, rows) ==
    LET last(k) == CHOOSE i \in 1..Len(rows) :
                      /\ rows[i].id = k
                      /\ \A j \in 1..Len(rows) : rows[j].id = k => j <= i
    IN  {q \in table : q.id \notin IdsOf(rows)}
          \cup {rows[last(k)] : k \in IdsOf(rows)}

WritePosts_upsert(table, rows) == StoreUpsert(table, rows)

\* supabase.table("posts").insert(posts_to_insert).execute()
WritePosts(table, rows) == StoreInsert(table, rows)

\* supabase.table("embeddings").upsert(emb_rows).execute(), keyed by post_id
WriteEmbeddings(table, rows) ==
    LET ids == {rows[i].post_id : i \in 1..Len(rows)}
        last(k) == CHOOSE i \in 1..Len(rows) :
                      /\ rows[i].post_id = k
                      /\ \A j \in 1..Len(rows) : rows[j].post_id = k => j <= i
    IN  {q \in table : q.post_id \notin ids} \cup {rows[last(k)] : k \in ids}

\* how a call of fetch_and_store ends for its caller, and with which value
Pending == [how |-> "pending", value |-> None]

\* every `return` and the fall-through end of the function give None
ReturnedNone == [how |-> "returned", value |-> None]

\* an exception that leaves fetch_and_store
Raised(e) == [how |-> "raised", value |-> e]

\* ---------------------------------------------------------------- state
VARIABLES
    creds,            \* REDDIT_CLIENT_ID and REDDIT_CLIENT_SECRET are set
    posts,            \* table posts
    embeddings,       \* table embeddings
    pc,               \* position of each run in fetch_and_store
    keyword,          \* the keyword argument of each run
    posts_fetched,    \* local list of each run
    existing_ids,     \* local set of each run
    posts_to_insert,  \* local list of each run
    outcome,          \* how the call ended for its caller
    log               \* per run: what it asked of the store and what happened

\* the collector's state
cvars == <<creds, posts, embeddings, pc, keyword, posts_fetched, existing_ids,
           posts_to_insert, outcome, log>>

\* nlp/embeddings.py: the module global and the threads that call embed_text
VARIABLES
    _model,           \* the module global: 0 for None, else the n-th model built
    epc,              \* position of each thread in embed_text / _get_model
    handle,           \* the model each thread got from _get_model (0: none yet)
    constructed,      \* how many times SentenceTransformer(...) has run
    calls             \* calls of embed_text each thread has made

evars == <<_model, epc, handle, constructed, calls>>

\* nlp/sentiment.py: one call of analyze_sentiment
VARIABLES
    s_text,           \* the argument
    s_compound,       \* the compound score VADER has for that text
    s_result          \* the returned pair, <<>> before the call returns

svars == <<s_text, s_compound, s_result>>

\* app/streamlit_app.py: the sentiment timeline of one script run
VARIABLES
    df,               \* the rows fetch_posts returned, newest first
    hours,            \* tf_map[timeframe]
    timeline,         \* the timeline frame: rows created_at, avg_sentiment, volume
    tl_view           \* what the timeline section has shown

tvars == <<df, hours, timeline, tl_view>>

\* app/streamlit_app.py: the volume-change KPI of one script run
VARIABLES
    vol_series,       \* the volume per bucket, oldest first
    volume_change_str \* the text of the KPI card, <<>> before it is computed

kvars == <<vol_series, volume_change_str>>

\* app/streamlit_app.py: the top n-grams section of one script run
VARIABLES
    df_text,          \* title + " " + body of each row, as a sequence of words
    freq_df,          \* the frame of terms and counts, <<>> before it is built
    chips,            \* the rows rendered as chips
    ng_state          \* "pending", "no data", "chips" or "ValueError"

nvars == <<df_text, freq_df, chips, ng_state>>

\* app/streamlit_app.py: the topic clusters section of one script run
VARIABLES
    n_posts,          \* len(df), which is E.shape[0]
    has_embedding,    \* "embedding" in df.columns
    n_clusters,       \* the count handed to KMeans, 0 before it is computed
    cl_view           \* what the section shows, "pending" before it ran

clvars == <<n_posts, has_embedding, n_clusters, cl_view>>

\* app/streamlit_app.py: the sections of one script run, top to bottom
VARIABLES
    page_pc,          \* the section the script is about to run
    page_rows,        \* `not df.empty`
    page_embedding,   \* "embedding" in df.columns
    view,             \* what each section has put on the page
    raised            \* the sections whose computation raised

pgvars == <<page_pc, page_rows, page_embedding, view, raised>>

\* app/streamlit_app.py: the reads of the posts table, for one state of the
\* store and of the query widgets
VARIABLES
    stored,           \* the rows of table posts
    q_keyword,        \* the keyword text input, a sequence of characters
    q_sources,        \* the source multiselect
    q_start,          \* start_time, the beginning of the window
    page_size,        \* the "Page size" input
    agg,              \* the initial load: [done, rows]
    live              \* the live-posts read of each page number: [done, rows]

qvars == <<stored, q_keyword, q_sources, q_start, page_size, agg, live>>

\* app/streamlit_app.py: the keyword box and the collect step, over the
\* script runs of one session
VARIABLES
    should_collect,   \* st.session_state["should_collect"], absent is FALSE
    ss_keyword,       \* st.session_state["keyword"], a sequence of characters
    collector_loaded, \* collect_reddit is not None
    ui_pc,            \* "waiting" for an event, or "script": a run has begun
    trigger,          \* what began the run: "load", "submit", "blank", "rerun"
    run_calls,        \* the collector calls of that run, the keyword of each
    notice,           \* what the collect step of that run told the user
    submits,          \* submissions so far
    reruns            \* reruns without a submission so far

uvars == <<should_collect, ss_keyword, collector_loaded, ui_pc, trigger,
           run_calls, notice, submits, reruns>>

vars == <<cvars, evars, svars, tvars, kvars, nvars, clvars, pgvars, qvars, uvars>>

\* what a specification of one component leaves alone
notCollector == <<evars, svars, tvars, kvars, nvars, clvars, pgvars, qvars, uvars>>
notEmbedder == <<cvars, svars, tvars, kvars, nvars, clvars, pgvars, qvars, uvars>>
notSentiment == <<cvars, evars, tvars, kvars, nvars, clvars, pgvars, qvars, uvars>>
notTimeline == <<cvars, evars, svars, kvars, nvars, clvars, pgvars, qvars, uvars>>
notKpi == <<cvars, evars, svars, tvars, nvars, clvars, pgvars, qvars, uvars>>
notNgrams == <<cvars, evars, svars, tvars, kvars, clvars, pgvars, qvars, uvars>>
notClusters == <<cvars, evars, svars, tvars, kvars, nvars, pgvars, qvars, uvars>>
notPage == <<cvars, evars, svars, tvars, kvars, nvars, clvars, qvars, uvars>>
notQuery == <<cvars, evars, svars, tvars, kvars, nvars, clvars, pgvars, uvars>>
notUi == <<cvars, evars, svars, tvars, kvars, nvars, clvars, pgvars, qvars>>

Threads == {"t1", "t2", "t3"}

\* no thread has called embed_text
EmbedderIdle ==
    /\ _model = 0
    /\ epc = [t \in Threads |-> "idle"]
    /\ handle = [t \in Threads |-> 0]
    /\ constructed = 0
    /\ calls = [t \in Threads |-> 0]

\* analyze_sentiment is not being called
SentimentIdle ==
    /\ s_text = None
    /\ s_compound = 0
    /\ s_result = <<>>

\* the timeline section has not run
TimelineIdle ==
    /\ df = <<>>
    /\ hours = 24
    /\ timeline = <<>>
    /\ tl_view = "pending"

\* the KPI row has not run
KpiIdle ==
    /\ vol_series = <<>>
    /\ volume_change_str = <<>>

\* the n-grams section has not run
NgramsIdle ==
    /\ df_text = <<>>
    /\ freq_df = <<>>
    /\ chips = <<>>
    /\ ng_state = "pending"

\* the clusters section has not run
ClustersIdle ==
    /\ n_posts = 0
    /\ has_embedding = FALSE
    /\ n_clusters = 0
    /\ cl_view = "pending"

Views == {"kpi", "timeline", "ngrams", "clusters", "live"}

\* no script run is rendering the page
PageIdle ==
    /\ page_pc = "idle"
    /\ page_rows = FALSE
    /\ page_embedding = FALSE
    /\ view = [v \in Views |-> "pending"]
    /\ raised = {}

\* the highest page number read
MaxPage == 2

Unread == [done |-> FALSE, rows |-> <<>>]

\* nothing has been read
QueryIdle ==
    /\ stored = {}
    /\ q_keyword = <<>>
    /\ q_sources = {}
    /\ q_start = 0
    /\ page_size = 10
    /\ agg = Unread
    /\ live = [p \in 1..MaxPage |-> Unread]

\* no session is open
UiIdle ==
    /\ should_collect = FALSE
    /\ ss_keyword = <<>>
    /\ collector_loaded = FALSE
    /\ ui_pc = "closed"
    /\ trigger = "load"
    /\ run_calls = <<>>
    /\ notice = "none"
    /\ submits = 0
    /\ reruns = 0

EmptyLog ==
    [queries     |-> 0,      \* existence queries issued
     inserts     |-> 0,      \* posts inserts issued
     payload     |-> <<>>,   \* rows handed to the posts insert
     snapshot    |-> {},     \* ids in posts when the existence query ran
     inserted    |-> {},     \* rows this run added to posts
     embCalls    |-> 0,      \* embeddings upserts issued
     embWritten  |-> {},     \* rows this run put into embeddings
     fetchFailed |-> FALSE,  \* the search raised
     modelFailed |-> FALSE,  \* embed_text raised
     outage      |-> FALSE,  \* the store was unreachable at check or insert
     conflict    |-> FALSE,  \* the insert was rejected by the primary key
     embFailed   |-> FALSE,  \* the embeddings upsert raised
     after       |-> {}]     \* runs that had ended when this one began

\* no run of fetch_and_store has been started
CollectorIdle ==
    /\ creds = TRUE
    /\ posts = {}
    /\ embeddings = {}
    /\ pc = [r \in Runs |-> "idle"]
    /\ keyword = [r \in Runs |-> None]
    /\ posts_fetched = [r \in Runs |-> <<>>]
    /\ existing_ids = [r \in Runs |-> {}]
    /\ posts_to_insert = [r \in Runs |-> <<>>]
    /\ outcome = [r \in Runs |-> Pending]
    /\ log = [r \in Runs |-> EmptyLog]

Init ==
    /\ creds \in BOOLEAN
    /\ posts = {}
    /\ embeddings = {}
    /\ pc = [r \in Runs |-> "idle"]
    /\ keyword = [r \in Runs |-> None]
    /\ posts_fetched = [r \in Runs |-> <<>>]
    /\ existing_ids = [r \in Runs |-> {}]
    /\ posts_to_insert = [r \in Runs |-> <<>>]
    /\ outcome = [r \in Runs |-> Pending]
    /\ log = [r \in Runs |-> EmptyLog]
    /\ EmbedderIdle
    /\ SentimentIdle
    /\ TimelineIdle
    /\ KpiIdle
    /\ NgramsIdle
    /\ ClustersIdle
    /\ PageIdle
    /\ QueryIdle
    /\ UiIdle

\* the keywords a run may be called with: r1 with k1, r2 with either
KeywordsOf(r) == IF r = "r1" THEN {"k1"} ELSE Keywords

\* fetch_and_store(keyword, limit): the credentials check and praw.Reddit(...)
Start(r) ==
    /\ pc[r] = "idle"
    /\ \E kw \in KeywordsOf(r) :
         /\ keyword' = [keyword EXCEPT ![r] = kw]
         /\ log' = [log EXCEPT ![r].after = {s \in Runs : pc[s] = "done"}]
         /\ IF creds
            THEN /\ pc' = [pc EXCEPT ![r] = "fetch"]
                 /\ UNCHANGED outcome
            ELSE /\ pc' = [pc EXCEPT ![r] = "done"]
                 /\ outcome' = [outcome EXCEPT ![r] = Raised("RuntimeError")]
    /\ UNCHANGED notCollector
    /\ UNCHANGED <<creds, posts, embeddings, posts_fetched, existing_ids,
                   posts_to_insert>>

\* one iteration of the search loop: the source yields a submission
FetchNext(r) ==
    /\ pc[r] = "fetch"
    /\ Len(posts_fetched[r]) < Limit
    /\ \E sid \in SourceIds :
         posts_fetched' = [posts_fetched EXCEPT
                              ![r] = Append(@, PostData(sid, keyword[r]))]
    /\ UNCHANGED notCollector
    /\ UNCHANGED <<creds, posts, embeddings, pc, keyword, existing_ids,
                   posts_to_insert, outcome, log>>

\* the search iterator is exhausted; `if not posts_fetched: return`
FetchEnd(r) ==
    /\ pc[r] = "fetch"
    /\ IF posts_fetched[r] = <<>>
       THEN /\ pc' = [pc EXCEPT ![r] = "done"]
            /\ outcome' = [outcome EXCEPT ![r] = ReturnedNone]
       ELSE /\ pc' = [pc EXCEPT ![r] = "enrich"]
            /\ UNCHANGED outcome
    /\ UNCHANGED notCollector
    /\ UNCHANGED <<creds, posts, embeddings, keyword, posts_fetched,
                   existing_ids, posts_to_insert, log>>

FetchFail_swallowed(r) ==
    /\ pc[r] = "fetch"
    /\ posts_fetched[r] # <<>>
    /\ pc' = [pc EXCEPT ![r] = "enrich"]
    /\ log' = [log EXCEPT ![r].fetchFailed = TRUE]
    /\ UNCHANGED notCollector
    /\ UNCHANGED <<creds, posts, embeddings, keyword, posts_fetched,
                   existing_ids, posts_to_insert, outcome>>

\* the search raises inside the loop; nothing catches it
FetchFail(r) ==
    /\ pc[r] = "fetch"
    /\ pc' = [pc EXCEPT ![r] = "done"]
    /\ outcome' = [outcome EXCEPT ![r] = Raised("source error")]
    /\ log' = [log EXCEPT ![r].fetchFailed = TRUE]
    /\ UNCHANGED notCollector
    /\ UNCHANGED <<creds, posts, embeddings, keyword, posts_fetched,
                   existing_ids, posts_to_insert>>

\* the pre-processing loop over all fetched posts
Enrich(r) ==
    /\ pc[r] = "enrich"
    /\ posts_fetched' = [posts_fetched EXCEPT ![r] = EnrichAll(@)]
    /\ pc' = [pc EXCEPT ![r] = "check"]
    /\ UNCHANGED notCollector
    /\ UNCHANGED <<creds, posts, embeddings, keyword, existing_ids,
                   posts_to_insert, outcome, log>>

\* embed_text raises in the pre-processing loop; nothing catches it
EnrichFail(r) ==
    /\ pc[r] = "enrich"
    /\ pc' = [pc EXCEPT ![r] = "done"]
    /\ outcome' = [outcome EXCEPT ![r] = Raised("model error")]
    /\ log' = [log EXCEPT ![r].modelFailed = TRUE]
    /\ UNCHANGED notCollector
    /\ UNCHANGED <<creds, posts, embeddings, keyword, posts_fetched,
                   existing_ids, posts_to_insert>>

\* the existence query and the filter loop that follows it
CheckExisting(r) ==
    /\ pc[r] = "check"
    /\ LET existing == SelectExisting(posts, IdsOf(posts_fetched[r]))
           to_insert == FilterNew(posts_fetched[r], existing)
       IN  /\ existing_ids' = [existing_ids EXCEPT ![r] = existing]
           /\ posts_to_insert' = [posts_to_insert EXCEPT ![r] = to_insert]
           /\ pc' = [pc EXCEPT ![r] = AfterFilter(to_insert)]
           /\ outcome' = [outcome EXCEPT
                 ![r] = IF AfterFilter(to_insert) = "done"
                        THEN ReturnedNone ELSE @]
           /\ log' = [log EXCEPT ![r].queries = @ + 1,
                                 ![r].snapshot = {p.id : p \in posts}]
    /\ UNCHANGED notCollector
    /\ UNCHANGED <<creds, posts, embeddings, keyword, posts_fetched>>

\* the existence query raises; the outer except prints and the call returns
CheckFail(r) ==
    /\ pc[r] = "check"
    /\ pc' = [pc EXCEPT ![r] = "done"]
    /\ outcome' = [outcome EXCEPT ![r] = ReturnedNone]
    /\ log' = [log EXCEPT ![r].queries = @ + 1, ![r].outage = TRUE]
    /\ UNCHANGED notCollector
    /\ UNCHANGED <<creds, posts, embeddings, keyword, posts_fetched,
                   existing_ids, posts_to_insert>>

InsertPosts_embedAnyway(r) ==
    /\ pc[r] = "insert"
    /\ LET written == WritePosts(posts, posts_to_insert[r])
           rejected == KeyConflict(posts, posts_to_insert[r])
       IN  /\ posts' = written
           /\ log' = [log EXCEPT ![r].inserts = @ + 1,
                                 ![r].payload = posts_to_insert[r],
                                 ![r].inserted = written \ posts,
                                 ![r].conflict = rejected]
           /\ pc' = [pc EXCEPT ![r] = "embed"]
           /\ UNCHANGED outcome
    /\ UNCHANGED notCollector
    /\ UNCHANGED <<creds, embeddings, keyword, posts_fetched, existing_ids,
                   posts_to_insert>>

\* the bulk insert of posts_to_insert
InsertPosts(r) ==
    /\ pc[r] = "insert"
    /\ LET written == WritePosts(posts, posts_to_insert[r])
           rejected == KeyConflict(posts, posts_to_insert[r])
       IN  /\ posts' = written
           /\ log' = [log EXCEPT ![r].inserts = @ + 1,
                                 ![r].payload = posts_to_insert[r],
                                 ![r].inserted = written \ posts,
                                 ![r].conflict = rejected]
           /\ IF rejected
              THEN /\ pc' = [pc EXCEPT ![r] = "done"]
                   /\ outcome' = [outcome EXCEPT ![r] = ReturnedNone]
              ELSE /\ pc' = [pc EXCEPT ![r] = "embed"]
                   /\ UNCHANGED outcome
    /\ UNCHANGED notCollector
    /\ UNCHANGED <<creds, embeddings, keyword, posts_fetched, existing_ids,
                   posts_to_insert>>

\* the bulk insert raises (store unreachable); the outer except prints
InsertFail(r) ==
    /\ pc[r] = "insert"
    /\ pc' = [pc EXCEPT ![r] = "done"]
    /\ outcome' = [outcome EXCEPT ![r] = ReturnedNone]
    /\ log' = [log EXCEPT ![r].inserts = @ + 1,
                          ![r].payload = posts_to_insert[r],
                          ![r].outage = TRUE]
    /\ UNCHANGED notCollector
    /\ UNCHANGED <<creds, posts, embeddings, keyword, posts_fetched,
                   existing_ids, posts_to_insert>>

\* the optional embeddings upsert
UpsertEmbeddings(r) ==
    /\ pc[r] = "embed"
    /\ LET emb_rows == EmbRows(posts_to_insert[r])
       IN  IF emb_rows # <<>>
           THEN /\ embeddings' = WriteEmbeddings(embeddings, emb_rows)
                /\ log' = [log EXCEPT ![r].embCalls = @ + 1,
                                      ![r].embWritten = RowsOf(emb_rows)]
           ELSE UNCHANGED <<embeddings, log>>
    /\ pc' = [pc EXCEPT ![r] = "done"]
    /\ outcome' = [outcome EXCEPT ![r] = ReturnedNone]
    /\ UNCHANGED notCollector
    /\ UNCHANGED <<creds, posts, keyword, posts_fetched, existing_ids,
                   posts_to_insert>>

UpsertEmbeddingsFail_raised(r) ==
    /\ pc[r] = "embed"
    /\ EmbRows(posts_to_insert[r]) # <<>>
    /\ pc' = [pc EXCEPT ![r] = "done"]
    /\ outcome' = [outcome EXCEPT ![r] = Raised("store error")]
    /\ log' = [log EXCEPT ![r].embCalls = @ + 1, ![r].embFailed = TRUE]
    /\ UNCHANGED notCollector
    /\ UNCHANGED <<creds, posts, embeddings, keyword, posts_fetched,
                   existing_ids, posts_to_insert>>

\* the embeddings upsert raises; the inner except prints and the call returns
UpsertEmbeddingsFail(r) ==
    /\ pc[r] = "embed"
    /\ EmbRows(posts_to_insert[r]) # <<>>
    /\ pc' = [pc EXCEPT ![r] = "done"]
    /\ outcome' = [outcome EXCEPT ![r] = ReturnedNone]
    /\ log' = [log EXCEPT ![r].embCalls = @ + 1, ![r].embFailed = TRUE]
    /\ UNCHANGED notCollector
    /\ UNCHANGED <<creds, posts, embeddings, keyword, posts_fetched,
                   existing_ids, posts_to_insert>>

Next ==
    \E r \in Runs :
        \/ Start(r)
        \/ FetchNext(r)
        \/ FetchEnd(r)
        \/ FetchFail(r)
        \/ Enrich(r)
        \/ EnrichFail(r)
        \/ CheckExisting(r)
        \/ CheckFail(r)
        \/ InsertPosts(r)
        \/ InsertFail(r)
        \/ UpsertEmbeddings(r)
        \/ UpsertEmbeddingsFail(r)

Spec == Init /\ [][Next]_vars

\* ---------------------------------------------------------------- embedder
\* calls of embed_text one thread makes
MaxCalls == 2

InitEmbedder ==
    /\ CollectorIdle
    /\ EmbedderIdle
    /\ SentimentIdle
    /\ TimelineIdle
    /\ KpiIdle
    /\ NgramsIdle
    /\ ClustersIdle
    /\ PageIdle
    /\ QueryIdle
    /\ UiIdle

\* a thread calls embed_text(texts), which calls _get_model()
CallEmbed(t) ==
    /\ epc[t] = "idle"
    /\ calls[t] < MaxCalls
    /\ calls' = [calls EXCEPT ![t] = @ + 1]
    /\ epc' = [epc EXCEPT ![t] = "get"]
    /\ UNCHANGED <<_model, handle, constructed>>
    /\ UNCHANGED notEmbedder

\* _get_model: `if _model is None` ... `return _model`
GetModel(t) ==
    /\ epc[t] = "get"
    /\ IF _model = 0
       THEN /\ epc' = [epc EXCEPT ![t] = "construct"]
            /\ UNCHANGED handle
       ELSE /\ epc' = [epc EXCEPT ![t] = "encode"]
            /\ handle' = [handle EXCEPT ![t] = _model]
    /\ UNCHANGED <<_model, constructed, calls>>
    /\ UNCHANGED notEmbedder

\* _model = SentenceTransformer("all-MiniLM-L6-v2"); return _model
Construct(t) ==
    /\ epc[t] = "construct"
    /\ constructed' = constructed + 1
    /\ _model' = constructed + 1
    /\ handle' = [handle EXCEPT ![t] = constructed + 1]
    /\ epc' = [epc EXCEPT ![t] = "encode"]
    /\ UNCHANGED calls
    /\ UNCHANGED notEmbedder

\* the constructor raises: the exception leaves embed_text, _model stays None
ConstructFail(t) ==
    /\ epc[t] = "construct"
    /\ epc' = [epc EXCEPT ![t] = "idle"]
    /\ UNCHANGED <<_model, handle, constructed, calls>>
    /\ UNCHANGED notEmbedder

\* model.encode(texts, show_progress_bar=False); return np.array(...)
Encode(t) ==
    /\ epc[t] = "encode"
    /\ epc' = [epc EXCEPT ![t] = "idle"]
    /\ UNCHANGED <<_model, handle, constructed, calls>>
    /\ UNCHANGED notEmbedder

NextEmbedder ==
    \E t \in Threads :
        \/ CallEmbed(t)
        \/ GetModel(t)
        \/ Construct(t)
        \/ ConstructFail(t)
        \/ Encode(t)

SpecEmbedder == InitEmbedder /\ [][NextEmbedder]_vars

\* ---------------------------------------------------------------- sentiment
\* arguments of analyze_sentiment: absent, empty and non-empty texts
SentimentTexts == {None, "", "x", "good\n"}

\* the compound scores VADER can give, -1.0000 .. 1.0000
Compounds == -10000..10000

InitSentiment ==
    /\ CollectorIdle
    /\ EmbedderIdle
    /\ s_text \in SentimentTexts
    /\ s_compound \in Compounds
    /\ s_result = <<>>
    /\ TimelineIdle
    /\ KpiIdle
    /\ NgramsIdle
    /\ ClustersIdle
    /\ PageIdle
    /\ QueryIdle
    /\ UiIdle

\* analyze_sentiment(text) runs and returns
AnalyzeSentiment ==
    /\ s_result = <<>>
    /\ s_result' = sentiment_of(s_text, s_compound)
    /\ UNCHANGED <<s_text, s_compound>>
    /\ UNCHANGED notSentiment

NextSentiment == AnalyzeSentiment

SpecSentiment == InitSentiment /\ [][NextSentiment]_vars

\* ---------------------------------------------------------------- timeline
\* rows of the frame the timeline is computed from
MaxRows == 3

\* created_at of the rows, in minutes
Times == {0, 10, 20, 50, 130}

\* sentiment_score of the rows in hundredths: <<v>>, or <<>> when it is null
Scores == {<<20>>, <<-40>>, <<60>>, <<>>}

\* the values of tf_map
TimeframeHours == {1, 6, 24, 24 * 7, 24 * 30}

DfRows == [created_at : Times, sentiment_score : Scores]

\* fetch_posts orders by created_at descending
Frames ==
    UNION {{f \in [1..n -> DfRows] :
               \A i \in 1..(n - 1) : f[i].created_at >= f[i + 1].created_at}
           : n \in 0..MaxRows}

\* the mean of an empty bucket
NaN == <<0, 0>>

NumericScore_dropna(row) == row.sentiment_score

\* pd.to_numeric(..., errors="coerce").fillna(0): <<v>>, a null becomes <<0>>
NumericScore(row) ==
    IF row.sentiment_score = <<>> THEN <<0>> ELSE row.sentiment_score

BucketWidth_hourly(h) == 60

\* `if hours <= 24`: resample("15min"), else resample("1h"); in minutes
BucketWidth(h) == IF h <= 24 THEN 15 ELSE 60

\* the start of the bucket of width w that holds time t
BucketStart(t, w) == (t \div w) * w

CreatedAts(f) == {f[i].created_at : i \in 1..Len(f)}

MinOf(S) == CHOOSE x \in S : \A y \in S : x <= y

MaxOf(S) == CHOOSE x \in S : \A y \in S : x >= y

\* resample: the buckets run from the one of the first row to the one of the
\* last row, empty ones included
NumBuckets(f, w) ==
    (BucketStart(MaxOf(CreatedAts(f)), w)
       - BucketStart(MinOf(CreatedAts(f)), w)) \div w + 1

Bucket(f, w, k) == BucketStart(MinOf(CreatedAts(f)), w) + (k - 1) * w

\* the rows of the k-th bucket
InBucket(f, w, k) ==
    {i \in 1..Len(f) : /\ Bucket(f, w, k) <= f[i].created_at
                       /\ f[i].created_at < Bucket(f, w, k) + w}

RECURSIVE SumScores(_, _)
\* the sum of the numeric scores of the rows I; a null row adds nothing
SumScores(f, I) ==
    IF I = {} THEN 0
    ELSE LET i == CHOOSE j \in I : TRUE
             v == NumericScore(f[i])
         IN  (IF v = <<>> THEN 0 ELSE v[1]) + SumScores(f, I \ {i})

\* the rows of I that count in a mean
Counted(f, I) == {i \in I : NumericScore(f[i]) # <<>>}

\* df["sentiment_score"].resample(w).mean(): <<sum, count>> per bucket
resample_mean(f, w) ==
    [k \in 1..NumBuckets(f, w) |->
        LET I == Counted(f, InBucket(f, w, k))
        IN  IF I = {} THEN NaN ELSE <<SumScores(f, I), Cardinality(I)>>]

\* df["sentiment_score"].resample(w).count()
resample_count(f, w) ==
    [k \in 1..NumBuckets(f, w) |-> Cardinality(Counted(f, InBucket(f, w, k)))]

ffill_none(series) == series

\* .ffill(): a NaN takes the last value before it that is not NaN
ffill(series) ==
    [k \in 1..Len(series) |->
        LET before == {j \in 1..k : series[j] # NaN}
        IN  IF before = {} THEN NaN ELSE series[MaxOf(before)]]

\* timeline = pd.DataFrame({"avg_sentiment": res, "volume": vol}).reset_index()
TimelineOf(f, h) ==
    LET w   == BucketWidth(h)
        res == ffill(resample_mean(f, w))
        vol == resample_count(f, w)
    IN  [k \in 1..Len(res) |->
            [created_at    |-> Bucket(f, w, k),
             avg_sentiment |-> res[k],
             volume        |-> vol[k]]]

InitTimeline ==
    /\ CollectorIdle
    /\ EmbedderIdle
    /\ SentimentIdle
    /\ df \in Frames
    /\ hours \in TimeframeHours
    /\ timeline = <<>>
    /\ tl_view = "pending"
    /\ KpiIdle
    /\ NgramsIdle
    /\ ClustersIdle
    /\ PageIdle
    /\ QueryIdle
    /\ UiIdle

\* `if df.empty: st.info("No posts found ...")`
TimelineEmpty ==
    /\ tl_view = "pending"
    /\ df = <<>>
    /\ tl_view' = "no posts"
    /\ UNCHANGED <<df, hours, timeline>>
    /\ UNCHANGED notTimeline

\* the else branch: sort, make numeric, resample, build and plot the frame
ComputeTimeline ==
    /\ tl_view = "pending"
    /\ df # <<>>
    /\ timeline' = TimelineOf(df, hours)
    /\ tl_view' = "chart"
    /\ UNCHANGED <<df, hours>>
    /\ UNCHANGED notTimeline

NextTimeline == TimelineEmpty \/ ComputeTimeline

SpecTimeline == InitTimeline /\ [][NextTimeline]_vars

\* ---------------------------------------------------------------- KPI row
\* the largest volume of one bucket
MaxVolume == 15

\* the longest volume series
MaxBuckets == 3

\* texts are sequences of characters; this one is the dash of the KPI card
Undefined == <<"em-dash">>

DigitChars == <<"0", "1", "2", "3", "4", "5", "6", "7", "8", "9">>

RECURSIVE Digits(_)
\* the decimal digits of a natural number
Digits(n) ==
    IF n < 10 THEN <<DigitChars[n + 1]>>
    ELSE Digits(n \div 10) \o <<DigitChars[(n % 10) + 1]>>

\* num / den rounded to the nearest integer, a tie going to the even one
RoundHalfEven(num, den) ==
    LET q == num \div den
        r == num % den
    IN  IF 2 * r < den THEN q
        ELSE IF 2 * r > den THEN q + 1
        ELSE IF q % 2 = 0 THEN q ELSE q + 1

\* f"{x:.1f}" of x = sign * |num| / den * 100
Format1f(num, den) ==
    LET mag    == IF num < 0 THEN -num ELSE num
        tenths == RoundHalfEven(1000 * mag, den)
    IN  (IF num < 0 THEN <<"-">> ELSE <<>>)
          \o Digits(tenths \div 10) \o <<".">> \o <<DigitChars[(tenths % 10) + 1]>>

VolumeChange_ofLast(vs) ==
    IF Len(vs) >= 2
    THEN LET last_vol == vs[Len(vs)]
             prev_vol == vs[Len(vs) - 1]
         IN  IF prev_vol > 0
             THEN IF last_vol - prev_vol >= 0
                  THEN <<"+">> \o Format1f(last_vol - prev_vol, last_vol) \o <<"%">>
                  ELSE Format1f(last_vol - prev_vol, last_vol) \o <<"%">>
             ELSE Undefined
    ELSE Undefined

\* volume_change_str: "—" unless the series has two buckets and the one
\* before the last is not empty; then the signed percentage, one decimal
VolumeChange(vs) ==
    IF Len(vs) >= 2
    THEN LET last_vol == vs[Len(vs)]
             prev_vol == vs[Len(vs) - 1]
         IN  IF prev_vol > 0
             THEN IF last_vol - prev_vol >= 0
                  THEN <<"+">> \o Format1f(last_vol - prev_vol, prev_vol) \o <<"%">>
                  ELSE Format1f(last_vol - prev_vol, prev_vol) \o <<"%">>
             ELSE Undefined
    ELSE Undefined

\* the volume series of a frame that is not empty: its first and its last
\* bucket hold a row
VolumeSeries ==
    UNION {{v \in [1..n -> 0..MaxVolume] : v[1] >= 1 /\ v[n] >= 1}
           : n \in 1..MaxBuckets}

InitKpi ==
    /\ CollectorIdle
    /\ EmbedderIdle
    /\ SentimentIdle
    /\ TimelineIdle
    /\ vol_series \in VolumeSeries
    /\ volume_change_str = <<>>
    /\ NgramsIdle
    /\ ClustersIdle
    /\ PageIdle
    /\ QueryIdle
    /\ UiIdle

\* the volume-change block of the KPI row
ComputeVolumeChange ==
    /\ volume_change_str = <<>>
    /\ volume_change_str' = VolumeChange(vol_series)
    /\ UNCHANGED vol_series
    /\ UNCHANGED notKpi

NextKpi == ComputeVolumeChange

SpecKpi == InitKpi /\ [][NextKpi]_vars

\* ------------------------------------------------------------ top n-grams
\* the number of different words that are not stop words
MaxWords == 16

\* a word of the English stop list; the other words are 1..MaxWords, in
\* alphabetical order
StopWord == 0

\* CountVectorizer(max_features=30)
MaxFeatures == 30

\* freq_df.head(25)
ChipRows == 25

\* a text: the words first, first + 1, ... (len of them), with a stop word
\* after the first word when stop is set; with len = 0 the text is empty or
\* is the stop word alone
Doc(first, len, stop) ==
    LET run == [i \in 1..len |-> first + i - 1]
    IN  IF ~stop THEN run
        ELSE IF len = 0 THEN <<StopWord>>
        ELSE <<first, StopWord>> \o SubSeq(run, 2, len)

NotStopWord(w) == w # StopWord

\* the frames the section can see: no row, one row, or two rows, the second
\* one empty or repeating the first words of the vocabulary
Corpora ==
    LET Docs1 == {Doc(1, len, stop) : len \in 0..MaxWords, stop \in BOOLEAN}
        Docs2 == {Doc(1, len, FALSE) : len \in {0, MaxWords \div 2}}
    IN  {<<>>} \cup {<<d>> : d \in Docs1}
               \cup {<<d, e>> : d \in Docs1, e \in Docs2}

\* the analyzer with stop_words="english": the stop words are dropped
\* before the n-grams are formed
Tokens(doc) == SelectSeq(doc, NotStopWord)

\* ngram_range=(1, 2): a term is one token or two tokens in a row
TermsOf(doc) ==
    LET t == Tokens(doc)
    IN  {<<t[i]>> : i \in 1..Len(t)}
          \cup {<<t[i], t[i + 1]>> : i \in 1..(Len(t) - 1)}

\* the vocabulary fit_transform learns before max_features cuts it
Vocabulary(corpus) == UNION {TermsOf(corpus[i]) : i \in 1..Len(corpus)}

Occurrences(term, doc) ==
    LET t == Tokens(doc)
    IN  Cardinality({i \in 1..(Len(t) - Len(term) + 1) :
                        SubSeq(t, i, i + Len(term) - 1) = term})

RECURSIVE TermCount(_, _)
\* X.sum(axis=0): the occurrences of a term over all the rows
TermCount(term, corpus) ==
    IF corpus = <<>> THEN 0
    ELSE Occurrences(term, Head(corpus)) + TermCount(term, Tail(corpus))

RECURSIVE KSubsets(_, _)
\* the subsets of S that have k elements
KSubsets(S, k) ==
    IF k = 0 THEN {{}}
    ELSE IF Cardinality(S) < k THEN {}
    ELSE LET x == CHOOSE y \in S : TRUE
         IN  KSubsets(S \ {x}, k)
               \cup {T \cup {x} : T \in KSubsets(S \ {x}, k - 1)}

\* max_features: the MaxFeatures terms of highest count are kept; which of
\* the terms tied at the cut are kept is left to the sort inside the
\* vectorizer, so every choice among them is possible here
Selections(corpus) ==
    LET V    == Vocabulary(corpus)
        F    == [t \in V |-> TermCount(t, corpus)]
        More(c) == {t \in V : F[t] > c}
        Same(c) == {t \in V : F[t] = c}
    IN  IF Cardinality(V) <= MaxFeatures THEN {V}
        ELSE LET c == CHOOSE d \in {F[t] : t \in V} :
                         /\ Cardinality(More(d)) < MaxFeatures
                         /\ Cardinality(More(d)) + Cardinality(Same(d))
                              >= MaxFeatures
                 over == Cardinality(More(c)) + Cardinality(Same(c))
                           - MaxFeatures
             IN  {(More(c) \cup Same(c)) \ D : D \in KSubsets(Same(c), over)}

\* the order of get_feature_names_out(): alphabetical, a word before the
\* pairs that start with it
TermBefore(a, b) ==
    \/ a[1] < b[1]
    \/ /\ a[1] = b[1]
       /\ \/ Len(a) < Len(b)
          \/ Len(a) = 2 /\ Len(b) = 2 /\ a[2] < b[2]

RECURSIVE SortedFreqs(_)
\* sorted(freqs, key=lambda x: x[1], reverse=True): by count, highest
\* first; the sort is stable, so equal counts stay in feature order
SortedFreqs(rows) ==
    IF rows = {} THEN <<>>
    ELSE LET r == CHOOSE x \in rows :
                     \A y \in rows :
                        \/ y = x
                        \/ x.count > y.count
                        \/ x.count = y.count /\ TermBefore(x.term, y.term)
         IN  <<r>> \o SortedFreqs(rows \ {r})

\* freq_df for the kept terms
FreqDf(kept, corpus) ==
    SortedFreqs({[term |-> t, count |-> TermCount(t, corpus)] : t \in kept})

\* DataFrame.head(n)
head(frame, n) == SubSeq(frame, 1, IF Len(frame) < n THEN Len(frame) ELSE n)

InitNgrams ==
    /\ CollectorIdle
    /\ EmbedderIdle
    /\ SentimentIdle
    /\ TimelineIdle
    /\ KpiIdle
    /\ ClustersIdle
    /\ PageIdle
    /\ QueryIdle
    /\ UiIdle
    /\ df_text \in Corpora
    /\ freq_df = <<>>
    /\ chips = <<>>
    /\ ng_state = "pending"

\* `if not df.empty` fails: the section shows its placeholder
NgramsNoData ==
    /\ ng_state = "pending"
    /\ df_text = <<>>
    /\ ng_state' = "no data"
    /\ UNCHANGED <<df_text, freq_df, chips>>
    /\ UNCHANGED notNgrams

\* fit_transform raises ValueError("empty vocabulary ...") when no text has
\* a token left; nothing in the section catches it
NgramsEmptyVocabulary ==
    /\ ng_state = "pending"
    /\ df_text # <<>>
    /\ Vocabulary(df_text) = {}
    /\ ng_state' = "ValueError"
    /\ UNCHANGED <<df_text, freq_df, chips>>
    /\ UNCHANGED notNgrams

\* the vectorizer, the frame and the chips
NgramsRender ==
    /\ ng_state = "pending"
    /\ df_text # <<>>
    /\ Vocabulary(df_text) # {}
    /\ \E kept \in Selections(df_text) :
          /\ freq_df' = FreqDf(kept, df_text)
          /\ chips' = head(freq_df', ChipRows)
    /\ ng_state' = "chips"
    /\ UNCHANGED df_text
    /\ UNCHANGED notNgrams

NextNgrams ==
    \/ NgramsNoData
    \/ NgramsEmptyVocabulary
    \/ NgramsRender

SpecNgrams == InitNgrams /\ [][NextNgrams]_vars

\* --------------------------------------------------------- topic clusters
\* fetch_posts(keyword, source, start_time, limit=500)
FetchLimit == 500

ClusterCount_cap5(n) ==
    LET low == IF n \div 10 > 2 THEN n \div 10 ELSE 2
    IN  IF low < 5 THEN low ELSE 5

\* n_clusters = min(6, max(2, E.shape[0] // 10))
ClusterCount(n) ==
    LET low == IF n \div 10 > 2 THEN n \div 10 ELSE 2
    IN  IF low < 6 THEN low ELSE 6

InitClusters ==
    /\ CollectorIdle
    /\ EmbedderIdle
    /\ SentimentIdle
    /\ TimelineIdle
    /\ KpiIdle
    /\ NgramsIdle
    /\ PageIdle
    /\ QueryIdle
    /\ UiIdle
    /\ n_posts \in 0..FetchLimit
    /\ has_embedding \in BOOLEAN
    /\ n_clusters = 0
    /\ cl_view = "pending"

\* `if not df.empty and "embedding" in df.columns` fails
ClustersUnavailable ==
    /\ cl_view = "pending"
    /\ ~(n_posts > 0 /\ has_embedding)
    /\ cl_view' = "No embeddings available for clustering."
    /\ UNCHANGED <<n_posts, has_embedding, n_clusters>>
    /\ UNCHANGED notClusters

\* KMeans(n_clusters=...).fit(E) with enough rows
KMeansFit ==
    /\ cl_view = "pending"
    /\ n_posts > 0 /\ has_embedding
    /\ n_clusters' = ClusterCount(n_posts)
    /\ ClusterCount(n_posts) >= 2 => n_posts >= ClusterCount(n_posts)
    /\ cl_view' = IF ClusterCount(n_posts) < 2
                  THEN "Not enough data to form clusters."
                  ELSE "clusters"
    /\ UNCHANGED <<n_posts, has_embedding>>
    /\ UNCHANGED notClusters

\* KMeans.fit raises ValueError when there are fewer rows than clusters;
\* `except Exception` turns it into a warning
KMeansFail ==
    /\ cl_view = "pending"
    /\ n_posts > 0 /\ has_embedding
    /\ n_clusters' = ClusterCount(n_posts)
    /\ ClusterCount(n_posts) >= 2
    /\ n_posts < ClusterCount(n_posts)
    /\ cl_view' = "Clustering failed"
    /\ UNCHANGED <<n_posts, has_embedding>>
    /\ UNCHANGED notClusters

NextClusters ==
    \/ ClustersUnavailable
    \/ KMeansFit
    \/ KMeansFail

SpecClusters == InitClusters /\ [][NextClusters]_vars

\* ------------------------------------------------- the page, top to bottom
\* The script runs its sections in the order of the file. An exception that
\* no `except` catches ends the script run: Streamlit shows the exception
\* where it was raised and nothing below it is run.

\* the view a computation belongs to
ViewOf(c) ==
    IF c \in {"volume change", "top subreddit", "kpi cards"} THEN "kpi"
    ELSE IF c = "live read" THEN "live"
    ELSE c

\* a section has run: what it shows, and where the script goes on
Rendered(v, shown, next) ==
    /\ view' = [view EXCEPT ![v] = shown]
    /\ page_pc' = next
    /\ UNCHANGED <<page_rows, page_embedding, raised>>
    /\ UNCHANGED notPage

\* a computation without a view of its own went through
Computed(next) ==
    /\ page_pc' = next
    /\ UNCHANGED <<page_rows, page_embedding, view, raised>>
    /\ UNCHANGED notPage

\* computation c raised inside a try block: the script goes on, and the
\* section shows its fallback (at once, or when it renders)
Caught(c, shown, next) ==
    /\ view' = [view EXCEPT ![ViewOf(c)] = shown]
    /\ raised' = raised \cup {c}
    /\ page_pc' = next
    /\ UNCHANGED <<page_rows, page_embedding>>
    /\ UNCHANGED notPage

\* computation c raised outside any try block
Uncaught(c) ==
    /\ view' = [view EXCEPT ![ViewOf(c)] = "exception"]
    /\ raised' = raised \cup {c}
    /\ page_pc' = "stopped"
    /\ UNCHANGED <<page_rows, page_embedding>>
    /\ UNCHANGED notPage

InitPage ==
    /\ CollectorIdle
    /\ EmbedderIdle
    /\ SentimentIdle
    /\ TimelineIdle
    /\ KpiIdle
    /\ NgramsIdle
    /\ ClustersIdle
    /\ QueryIdle
    /\ UiIdle
    /\ page_pc = "kpi"
    /\ page_rows \in BOOLEAN
    /\ page_embedding \in BOOLEAN
    /\ view = [v \in Views |-> "pending"]
    /\ raised = {}

\* the KPI row of an empty frame: the skeleton
PageKpiSkeleton ==
    /\ page_pc = "kpi"
    /\ ~page_rows
    /\ Rendered("kpi", "placeholder", "timeline")

\* the volume change
PageKpiVolume ==
    /\ page_pc = "kpi"
    /\ page_rows
    /\ Computed("kpi top")

\* the volume change raised: `try: ... except: pass`, the dash stays
PageKpiVolumeCaught ==
    /\ page_pc = "kpi"
    /\ page_rows
    /\ Caught("volume change", "pending", "kpi top")

\* the top subreddit
PageKpiTop ==
    /\ page_pc = "kpi top"
    /\ Computed("kpi cards")

\* the top subreddit raised: `try: ... except: pass`, the dash stays
PageKpiTopCaught ==
    /\ page_pc = "kpi top"
    /\ Caught("top subreddit", "pending", "kpi cards")

\* the cards; a value that raised is shown as the dash
PageKpiCards ==
    /\ page_pc = "kpi cards"
    /\ Rendered("kpi",
                IF raised \cap {"volume change", "top subreddit"} = {}
                THEN "shown" ELSE "unavailable",
                "timeline")

\* total_posts, avg_sentiment and the cards are outside the try blocks
PageKpiRaise ==
    /\ page_pc = "kpi cards"
    /\ Uncaught("kpi cards")

\* the timeline: the chart, or the "No posts found" notice
PageTimeline ==
    /\ page_pc = "timeline"
    /\ Rendered("timeline", IF page_rows THEN "shown" ELSE "placeholder",
                "ngrams")

\* nothing of the timeline section is inside a try block
PageTimelineRaise ==
    /\ page_pc = "timeline"
    /\ page_rows
    /\ Uncaught("timeline")

\* the n-grams: the chips, or the skeleton
PageNgrams ==
    /\ page_pc = "ngrams"
    /\ Rendered("ngrams", IF page_rows THEN "shown" ELSE "placeholder",
                "clusters")

\* nothing of the n-grams section is inside a try block; fit_transform
\* raises when no text has a token left
PageNgramsRaise ==
    /\ page_pc = "ngrams"
    /\ page_rows
    /\ Uncaught("ngrams")

\* the clusters: the cards, or "No embeddings available for clustering."
PageClusters ==
    /\ page_pc = "clusters"
    /\ Rendered("clusters",
                IF page_rows /\ page_embedding THEN "shown" ELSE "placeholder",
                "live")

\* `except Exception as e: st.warning("Clustering failed: " + str(e))`
PageClustersCaught ==
    /\ page_pc = "clusters"
    /\ page_rows /\ page_embedding
    /\ Caught("clusters", "unavailable", "live")

\* the live posts: the page of posts, or the skeleton when it is empty
PageLive ==
    /\ page_pc = "live"
    /\ \E shown \in {"shown", "placeholder"} : Rendered("live", shown, "done")

\* fetch_posts catches the failed read, reports it and returns []
PageLiveCaught ==
    /\ page_pc = "live"
    /\ Caught("live read", "unavailable", "done")

NextPage ==
    \/ PageKpiSkeleton
    \/ PageKpiVolume
    \/ PageKpiVolumeCaught
    \/ PageKpiTop
    \/ PageKpiTopCaught
    \/ PageKpiCards
    \/ PageKpiRaise
    \/ PageTimeline
    \/ PageTimelineRaise
    \/ PageNgrams
    \/ PageNgramsRaise
    \/ PageClusters
    \/ PageClustersCaught
    \/ PageLive
    \/ PageLiveCaught

SpecPage == InitPage /\ [][NextPage]_vars

\* ------------------------------------------------------------ fetch_posts
\* Texts are sequences of characters. A column that is null is Null.
Null == <<"null">>

\* the most rows the posts table holds
MaxStored == 6

Sources == {"reddit", "twitter"}

\* st.number_input("Page size", min_value=5, max_value=100, value=10)
PageSizes == {5, 10}

LowerChar(c) ==
    IF c = "A" THEN "a"
    ELSE IF c = "C" THEN "c"
    ELSE IF c = "T" THEN "t"
    ELSE c

\* the case folding of ILIKE
LowerText(t) == [i \in 1..Len(t) |-> LowerChar(t[i])]

RECURSIVE strip(_)
\* str.strip(): the blanks at both ends go
strip(t) ==
    IF t = <<>> THEN t
    ELSE IF Head(t) = " " THEN strip(Tail(t))
    ELSE IF t[Len(t)] = " " THEN strip(SubSeq(t, 1, Len(t) - 1))
    ELSE t

RECURSIVE Like(_, _)
\* text LIKE pattern: % stands for any run of characters, _ for any one
Like(text, pattern) ==
    IF pattern = <<>> THEN text = <<>>
    ELSE IF Head(pattern) = "%"
         THEN \/ Like(text, Tail(pattern))
              \/ text # <<>> /\ Like(Tail(text), pattern)
    ELSE IF text = <<>> THEN FALSE
    ELSE /\ Head(pattern) = "_" \/ Head(pattern) = Head(text)
         /\ Like(Tail(text), Tail(pattern))

\* column ILIKE pattern; a null column matches nothing
ilike(column, pattern) ==
    /\ column # Null
    /\ Like(LowerText(column), LowerText(pattern))

KeywordFilter_titleOnly(row, word) ==
    IF word = <<>> THEN TRUE
    ELSE ilike(row.title, <<"%">> \o strip(word) \o <<"%">>)

\* `if keyword:` query.or_("title.ilike.%kw%,body.ilike.%kw%,keyword.ilike.%kw%")
KeywordFilter(row, word) ==
    IF word = <<>> THEN TRUE
    ELSE LET trimmed == strip(word)
             pat == <<"%">> \o trimmed \o <<"%">>
         IN  \/ ilike(row.title, pat)
             \/ ilike(row.body, pat)
             \/ ilike(row.keyword, pat)

\* `if sources:` query.in_("source", list(sources))
SourceFilter(row, sources) == sources = {} \/ row.source \in sources

\* the rows the filters of the query let through
Matching(rows, word, sources, start) ==
    {r \in rows : /\ r.created_at >= start
                  /\ KeywordFilter(r, word)
                  /\ SourceFilter(r, sources)}

RECURSIVE Orders(_)
\* .order("created_at", desc=True): the newest first; the store is free to
\* put rows of equal created_at in any order, and to do so anew in each query
Orders(rows) ==
    IF rows = {} THEN {<<>>}
    ELSE LET newest == {r \in rows : \A x \in rows : r.created_at >= x.created_at}
         IN  UNION {{<<r>> \o rest : rest \in Orders(rows \ {r})} : r \in newest}

\* query.range(offset, offset + limit - 1)
range(ordered, offset, limit) ==
    SubSeq(ordered, offset + 1,
           IF offset + limit < Len(ordered) THEN offset + limit ELSE Len(ordered))

\* what fetch_posts can return when the read succeeds
fetch_posts(rows, word, sources, start, limit, offset) ==
    {range(o, offset, limit) : o \in Orders(Matching(rows, word, sources, start))}

\* the rows of a store with texts: one post, its columns from small sets
TextRows ==
    [id         : {1},
     title      : {Null, <<"C", "a", "t">>, <<"c", "o", "t">>, <<"d", "o", "g">>},
     body       : {Null, <<"a", " ", "c", "a", "t">>},
     keyword    : {<<"c", "a", "t">>, <<"d", "o", "g">>},
     source     : Sources,
     created_at : {1, 2}]

\* what the user can have typed
QueryKeywords ==
    {<<>>, <<"c", "a", "t">>, <<"C", "A", "T">>, <<" ", "c", "a", "t", " ">>,
     <<"a", "t">>, <<"c", "_", "t">>, <<"o", "w">>}

\* rows that the query filters do not tell apart, newest first by id
PlainRow(i, t) ==
    [id |-> i, title |-> <<"c", "a", "t">>, body |-> Null,
     keyword |-> <<"c", "a", "t">>, source |-> "reddit", created_at |-> t]

\* the stores of n posts, of which two (never three) can have the same
\* time of creation
PlainStores ==
    UNION {{{PlainRow(i, c[i]) : i \in 1..n} :
              c \in {f \in [1..n -> 1..4] :
                        /\ \A i \in 1..n : \A j \in i..n : f[i] >= f[j]
                        /\ \A i \in 1..(n - 2) : f[i] > f[i + 2]}}
           : n \in 0..MaxStored}

QueryRest ==
    /\ CollectorIdle
    /\ EmbedderIdle
    /\ SentimentIdle
    /\ TimelineIdle
    /\ KpiIdle
    /\ NgramsIdle
    /\ ClustersIdle
    /\ PageIdle
    /\ UiIdle
    /\ agg = Unread
    /\ live = [p \in 1..MaxPage |-> Unread]

\* one post with texts, any query
InitQuery ==
    /\ QueryRest
    /\ stored \in {{}} \cup {{r} : r \in TextRows}
    /\ q_keyword \in QueryKeywords
    /\ q_sources \in SUBSET Sources
    /\ q_start \in {1, 2}
    /\ page_size \in PageSizes

\* several posts, a query that lets all of them through
InitPages ==
    /\ QueryRest
    /\ stored \in PlainStores
    /\ q_keyword \in {<<>>, <<"c", "a", "t">>}
    /\ q_sources = {}
    /\ q_start = 1
    /\ page_size \in PageSizes

\* posts = fetch_posts(keyword, source, start_time, limit=500)
InitialLoad ==
    /\ ~agg.done
    /\ \E rows \in fetch_posts(stored, q_keyword, q_sources, q_start,
                               FetchLimit, 0) :
          agg' = [done |-> TRUE, rows |-> rows]
    /\ UNCHANGED <<stored, q_keyword, q_sources, q_start, page_size, live>>
    /\ UNCHANGED notQuery

\* posts_page = fetch_posts(keyword, source, start_time, limit=page_size,
\*                          offset=(page - 1) * page_size)
ReadPage(page) ==
    /\ ~live[page].done
    /\ \E rows \in fetch_posts(stored, q_keyword, q_sources, q_start,
                               page_size, (page - 1) * page_size) :
          live' = [live EXCEPT ![page] = [done |-> TRUE, rows |-> rows]]
    /\ UNCHANGED <<stored, q_keyword, q_sources, q_start, page_size, agg>>
    /\ UNCHANGED notQuery

NextQuery ==
    \/ InitialLoad
    \/ \E page \in 1..MaxPage : ReadPage(page)

SpecQuery == InitQuery /\ [][NextQuery]_vars

SpecPages == InitPages /\ [][NextQuery]_vars

\* ------------------------------------------ keyword box and collect step
\* the most submissions of one session
MaxSubmits == 2

\* the most reruns without a submission of one session
MaxReruns == 2

\* what the user can have typed; the box starts with a keyword in it
KeywordInputs == {<<>>, <<" ">>, <<"a">>, <<" ", "a", " ">>, <<"b">>}

\* the session opens: the first script run, nothing submitted
InitUi ==
    /\ CollectorIdle
    /\ EmbedderIdle
    /\ SentimentIdle
    /\ TimelineIdle
    /\ KpiIdle
    /\ NgramsIdle
    /\ ClustersIdle
    /\ PageIdle
    /\ QueryIdle
    /\ should_collect = FALSE
    /\ ss_keyword = <<"a">>
    /\ collector_loaded \in BOOLEAN
    /\ ui_pc = "script"
    /\ trigger = "load"
    /\ run_calls = <<>>
    /\ notice = "none"
    /\ submits = 0
    /\ reruns = 0

\* _on_keyword_submit, then the script run the submission starts
OnKeywordSubmit(text) ==
    /\ ui_pc = "waiting"
    /\ submits < MaxSubmits
    /\ ss_keyword' = text
    /\ should_collect' = IF strip(text) # <<>> THEN TRUE ELSE should_collect
    /\ trigger' = IF strip(text) # <<>> THEN "submit" ELSE "blank"
    /\ ui_pc' = "script"
    /\ run_calls' = <<>>
    /\ notice' = "none"
    /\ submits' = submits + 1
    /\ UNCHANGED <<collector_loaded, reruns>>
    /\ UNCHANGED notUi

\* a script run that no submission started: another widget, a refresh
Rerun ==
    /\ ui_pc = "waiting"
    /\ reruns < MaxReruns
    /\ trigger' = "rerun"
    /\ ui_pc' = "script"
    /\ run_calls' = <<>>
    /\ notice' = "none"
    /\ reruns' = reruns + 1
    /\ UNCHANGED <<should_collect, ss_keyword, collector_loaded, submits>>
    /\ UNCHANGED notUi

\* the end of the collect step: the flag after it, the calls it made
CollectStep_flagKept(made, told) ==
    /\ run_calls' = run_calls \o made
    /\ notice' = told
    /\ ui_pc' = "waiting"
    /\ UNCHANGED <<should_collect, ss_keyword, collector_loaded, trigger,
                   submits, reruns>>
    /\ UNCHANGED notUi

CollectStep(made, told) ==
    /\ should_collect' = FALSE
    /\ run_calls' = run_calls \o made
    /\ notice' = told
    /\ ui_pc' = "waiting"
    /\ UNCHANGED <<ss_keyword, collector_loaded, trigger, submits, reruns>>
    /\ UNCHANGED notUi

\* `if st.session_state.get("should_collect")` fails: no collect step
NoCollect ==
    /\ ui_pc = "script"
    /\ ~should_collect
    /\ ui_pc' = "waiting"
    /\ UNCHANGED <<should_collect, ss_keyword, collector_loaded, trigger,
                   run_calls, notice, submits, reruns>>
    /\ UNCHANGED notUi

\* collect_reddit(keyword.strip(), limit=100) returns
CollectDone ==
    /\ ui_pc = "script"
    /\ should_collect
    /\ collector_loaded
    /\ CollectStep(<<strip(ss_keyword)>>, "Collection complete.")

\* collect_reddit raises: `except Exception as e: st.warning(...)`
CollectRaised ==
    /\ ui_pc = "script"
    /\ should_collect
    /\ collector_loaded
    /\ CollectStep(<<strip(ss_keyword)>>, "Collector error")

\* collect_reddit is None: st.info(...), no call
CollectUnavailable ==
    /\ ui_pc = "script"
    /\ should_collect
    /\ ~collector_loaded
    /\ CollectStep(<<>>, "Collector module not available")

NextUi ==
    \/ \E text \in KeywordInputs : OnKeywordSubmit(text)
    \/ Rerun
    \/ NoCollect
    \/ CollectDone
    \/ CollectRaised
    \/ CollectUnavailable

SpecUi == InitUi /\ [][NextUi]_vars

TypeOK ==
    /\ pc \in [Runs -> {"idle", "fetch", "enrich", "check", "insert",
                        "embed", "done"}]
    /\ \A r \in Runs : Len(posts_fetched[r]) <= Limit

\* ---------------------------------------------------------------- properties
Done(r) == pc[r] = "done"

FetchedIds(r) == IdsOf(posts_fetched[r])

\* the source ids a run received, in the order it received them
FetchedSourceIds(r) ==
    [i \in 1..Len(posts_fetched[r]) |-> posts_fetched[r][i].source_id]

StoreFailed(r) == log[r].outage \/ log[r].conflict

\* the run went through every step it had to take and none of them failed
Succeeded(r) ==
    /\ Done(r)
    /\ outcome[r].how = "returned"
    /\ ~log[r].fetchFailed /\ ~log[r].modelFailed /\ ~StoreFailed(r)

\* the run got the answer of its existence query
Checked(r) == log[r].queries = 1 /\ pc[r] \in {"insert", "embed", "done"}
                 /\ ~(log[r].outage /\ log[r].inserts = 0)

\* the run took the step that issues the existence query
ReachedCheck(r) ==
    /\ creds
    /\ posts_fetched[r] # <<>>
    /\ ~log[r].fetchFailed /\ ~log[r].modelFailed

NoRepeatedId(r) == Cardinality(FetchedIds(r)) = Len(posts_fetched[r])

\* C1: a run that starts after a run of the same keyword ended without a
\* store failure, and that fetches the same posts, finds every id it fetched
\* in the store, issues no insert and adds no row to posts.
C1_Idempotent ==
    \A r1, r2 \in Runs :
        ( /\ r1 # r2 /\ Done(r2) /\ r1 \in log[r2].after
          /\ Succeeded(r1)
          /\ keyword[r2] = keyword[r1]
          /\ FetchedSourceIds(r2) = FetchedSourceIds(r1) )
        => /\ log[r2].inserts = 0
           /\ log[r2].inserted = {}
           /\ (Checked(r2) => existing_ids[r2] = FetchedIds(r2))

C1_Witness ==
    \E r1, r2 \in Runs :
        /\ r1 # r2 /\ Done(r2) /\ r1 \in log[r2].after
        /\ Succeeded(r1) /\ log[r1].inserted # {}
        /\ keyword[r2] = keyword[r1]
        /\ FetchedSourceIds(r2) = FetchedSourceIds(r1)
        /\ Checked(r2) /\ log[r2].inserts = 0

\* C2 (as amended): the ids that come out of the filter are exactly the
\* fetched ids that were not in the store when the existence query ran, N - M
\* of them; a run issues at most one existence query, exactly one when it
\* reaches the deduplication step and none when it ended before it (no post
\* fetched, or the fetch or the enrichment raised).
C2_DedupExact ==
    \A r \in Runs :
        /\ log[r].queries <= 1
        /\ Done(r) => (log[r].queries = 1 <=> ReachedCheck(r))
        /\ Checked(r) =>
             LET N == Cardinality(FetchedIds(r))
                 M == Cardinality(FetchedIds(r) \cap log[r].snapshot)
             IN  /\ IdsOf(posts_to_insert[r]) = FetchedIds(r) \ log[r].snapshot
                 /\ Cardinality(IdsOf(posts_to_insert[r])) = N - M

C2_Witness ==
    \E r \in Runs :
        /\ Done(r) /\ Checked(r)
        /\ Cardinality(FetchedIds(r)) = 2
        /\ Cardinality(FetchedIds(r) \cap log[r].snapshot) = 1
        /\ Cardinality(IdsOf(posts_to_insert[r])) = 1

\* C2 as stated: every ingest run that returns has issued exactly one
\* existence query, whatever the number of fetched ids.
C2_OneQueryPerRun ==
    \A r \in Runs :
        (Done(r) /\ outcome[r].how = "returned") => log[r].queries = 1

\* C3: the posts insert is issued at most once per run, never with an empty
\* batch; the rows it carries are exactly the fetched posts whose id was not
\* in the store at the existence query, and the run adds no other row.
C3_OnlyNewPersisted ==
    \A r \in Runs :
        /\ log[r].inserts <= 1
        /\ log[r].inserted \subseteq RowsOf(log[r].payload)
        /\ log[r].inserts = 1 =>
             /\ log[r].payload # <<>>
             /\ log[r].payload =
                  SelectSeq(posts_fetched[r],
                            LAMBDA p : p.id \notin log[r].snapshot)
             /\ ~StoreFailed(r) => log[r].inserted = RowsOf(log[r].payload)
        /\ (Done(r) /\ Checked(r) /\ FetchedIds(r) \subseteq log[r].snapshot)
             => log[r].inserts = 0

C3_Witness ==
    \E r \in Runs :
        /\ Done(r) /\ log[r].inserts = 1 /\ ~StoreFailed(r)
        /\ Len(posts_fetched[r]) = 2
        /\ Len(log[r].payload) = 1
        /\ log[r].inserted = RowsOf(log[r].payload)
        /\ \E p \in posts : p.id \in FetchedIds(r) /\ p \notin log[r].inserted

\* C4 as stated: every run that completes returns an IngestResult whose
\* counts are fetched, inserted (the rows persisted) and skipped = fetched -
\* inserted.
C4_ReturnsIngestResult ==
    \A r \in Runs :
        (Done(r) /\ outcome[r].how = "returned") =>
            /\ outcome[r].value # None
            /\ outcome[r].value.fetched = Len(posts_fetched[r])
            /\ outcome[r].value.inserted = Cardinality(log[r].inserted)
            /\ outcome[r].value.skipped =
                 Len(posts_fetched[r]) - Cardinality(log[r].inserted)

\* the posts table after `first` ran alone and `second` ran after it
SerialResult(first, second) ==
    RowsOf(posts_fetched[first])
      \cup {p \in RowsOf(posts_fetched[second]) : p.id \notin FetchedIds(first)}

\* C5 as stated: when two runs for different keywords have both ended,
\* neither hit by a failed
\* fetch, a failed enrichment or an unreachable store, and neither batch
\* repeats an id, the posts table is the one a serial execution of the two
\* runs gives.
C5_Serializable ==
    \A r1, r2 \in Runs :
        ( /\ r1 # r2 /\ Done(r1) /\ Done(r2)
          /\ keyword[r1] # keyword[r2]
          /\ \A r \in {r1, r2} :
               /\ outcome[r].how = "returned"
               /\ ~log[r].fetchFailed /\ ~log[r].modelFailed /\ ~log[r].outage
               /\ NoRepeatedId(r) )
        => posts \in {SerialResult(r1, r2), SerialResult(r2, r1)}

\* C6: the posts table holds at most one row per id, and every row's id is
\* "<source>:<source_id>" of that row.
C6_IdUnique ==
    /\ \A p, q \in posts : p.id = q.id => p = q
    /\ \A p \in posts : p.id = p.source \o ":" \o p.source_id

C6_Witness ==
    /\ Cardinality(posts) >= 2
    /\ \E r \in Runs : Done(r) /\ log[r].conflict
    /\ \A r \in Runs : Done(r)

\* C7: no step changes or removes a row that is in the posts table.
C7_AppendOnly == [][\A p \in posts : p \in posts']_vars

C7_Witness ==
    \E r \in Runs :
        /\ Done(r) /\ log[r].inserts = 1
        /\ \E p \in posts :
             /\ p.id \in FetchedIds(r)
             /\ p.keyword # keyword[r]
             /\ p.sentiment_label # None

\* C8: a run whose fetch raised has issued no existence query, no posts
\* insert and no embeddings upsert, and has written no row to either table.
C8_FetchFailureWritesNothing ==
    \A r \in Runs :
        log[r].fetchFailed =>
            /\ log[r].queries = 0 /\ log[r].inserts = 0 /\ log[r].embCalls = 0
            /\ log[r].inserted = {} /\ log[r].embWritten = {}
            /\ pc[r] = "done"

C8_Witness ==
    \E r \in Runs :
        /\ log[r].fetchFailed /\ Done(r)
        /\ posts_fetched[r] # <<>>
        /\ \E p \in posts : p.id \notin FetchedIds(r)

\* C9 as stated: the outcome of a run whose existence check or posts insert
\* failed differs from the outcome of a run that succeeded.
C9_StoreFailureDistinguishable ==
    \A r, s \in Runs :
        (Done(r) /\ StoreFailed(r) /\ Succeeded(s)) => outcome[r] # outcome[s]

\* C10 as stated: no call of fetch_and_store ends by raising a connector,
\* model or store exception to its caller.
C10_NoRawPropagation ==
    \A r \in Runs :
        ~( /\ outcome[r].how = "raised"
           /\ outcome[r].value \in {"source error", "model error",
                                    "store error"} )

\* C11 as stated: a run in which embed_text failed still goes on to the
\* existence query and persists its new posts, sentiment set and embedding
\* absent.
C11_EmbeddingFailureNonFatal ==
    \A r \in Runs :
        (Done(r) /\ log[r].modelFailed) =>
            /\ log[r].queries = 1
            /\ (~StoreFailed(r) /\ NoRepeatedId(r)) =>
                  \A i \in 1..Len(posts_fetched[r]) :
                      \E p \in posts :
                          /\ p.id = posts_fetched[r][i].id
                          /\ p.sentiment_label # None

\* C12: when the embeddings upsert of a run raises, the rows the run
\* inserted into posts stay in posts, and the call ends as it does when the
\* upsert succeeds: it returns None.
C12_EmbeddingsWriteNonFatal ==
    \A r \in Runs :
        log[r].embFailed =>
            /\ Done(r)
            /\ outcome[r] = ReturnedNone
            /\ log[r].inserted = RowsOf(log[r].payload)
            /\ log[r].inserted # {}
            /\ log[r].inserted \subseteq posts
            /\ \A s \in Runs :
                 (Done(s) /\ log[s].embCalls = 1 /\ ~log[s].embFailed)
                     => outcome[s] = outcome[r]

C12_Witness ==
    \E r, s \in Runs :
        /\ log[r].embFailed /\ Done(r) /\ log[r].inserted # {}
        /\ Done(s) /\ log[s].embCalls = 1 /\ ~log[s].embFailed

\* C13: when a run ends on an unreachable store (at the existence check or
\* at the insert) and the same call is then made again, fetches the same
\* posts and succeeds, the posts table is the one a single successful run
\* gives: one row for every fetched post and no other row.
C13_RetrySafe ==
    \A r1, r2 \in Runs :
        ( /\ r1 # r2 /\ r1 \in log[r2].after
          /\ log[r1].outage
          /\ keyword[r2] = keyword[r1]
          /\ FetchedSourceIds(r2) = FetchedSourceIds(r1)
          /\ Succeeded(r2) )
        => /\ posts = RowsOf(posts_fetched[r2])
           /\ Cardinality(posts) = Len(posts_fetched[r2])

C13_Witness ==
    \E r1, r2 \in Runs :
        /\ r1 # r2 /\ r1 \in log[r2].after
        /\ log[r1].outage /\ log[r1].inserts = 1
        /\ keyword[r2] = keyword[r1]
        /\ FetchedSourceIds(r2) = FetchedSourceIds(r1)
        /\ Succeeded(r2)
        /\ Cardinality(posts) = 2

\* C14 as stated: whatever the interleaving of the threads' calls of
\* embed_text, the model constructor has run at most once, and every thread
\* that got a model got the one handle.
C14_SingleInitialization ==
    /\ constructed <= 1
    /\ \A t, u \in Threads :
         (handle[t] # 0 /\ handle[u] # 0) => handle[t] = handle[u]

\* C15: analyze_sentiment returns (0.0, neutral) for an absent or empty text;
\* for any other text it returns the compound score with the label positive
\* iff compound >= 0.05, negative iff compound <= -0.05, and neutral iff the
\* score is strictly between.
C15_SentimentLabel ==
    s_result # <<>> =>
        IF s_text = None \/ s_text = ""
        THEN s_result = <<0, "neutral">>
        ELSE /\ s_result[1] = s_compound
             /\ s_result[2] \in {"positive", "negative", "neutral"}
             /\ s_result[2] = "positive" <=> s_compound >= 500
             /\ s_result[2] = "negative" <=> s_compound <= -500
             /\ s_result[2] = "neutral" <=>
                    (-500 < s_compound /\ s_compound < 500)

C15_Witness ==
    /\ s_text = "x"
    /\ s_compound = -500
    /\ s_result = <<-500, "negative">>

\* the bucket width the timeline is to have, in minutes
WidthFor(h) == IF h <= 24 THEN 15 ELSE 60

\* the rows whose created_at falls in the bucket of timeline row k
RowsIn(k) ==
    {i \in 1..Len(df) :
        /\ timeline[k].created_at <= df[i].created_at
        /\ df[i].created_at < timeline[k].created_at + WidthFor(hours)}

RECURSIVE ScoreTotal(_)
\* the sum of the scores of the rows I of df, a missing score counted as 0
ScoreTotal(I) ==
    IF I = {} THEN 0
    ELSE LET i == CHOOSE j \in I : TRUE
         IN  (IF df[i].sentiment_score = <<>> THEN 0
              ELSE df[i].sentiment_score[1]) + ScoreTotal(I \ {i})

C17_ForwardFill ==
    tl_view = "chart" =>
        /\ Len(timeline) >= 1
        /\ RowsIn(1) # {} /\ RowsIn(Len(timeline)) # {}
        /\ \A k \in 1..(Len(timeline) - 1) :
             timeline[k + 1].created_at
                 = timeline[k].created_at + WidthFor(hours)
        /\ \A k \in 1..Len(timeline) :
             RowsIn(k) = {} =>
                 /\ timeline[k].volume = 0
                 /\ \E j \in 1..(k - 1) :
                      /\ RowsIn(j) # {}
                      /\ \A m \in (j + 1)..(k - 1) : RowsIn(m) = {}
                      /\ timeline[k].avg_sentiment
                            = <<ScoreTotal(RowsIn(j)), Cardinality(RowsIn(j))>>

C17_Witness ==
    /\ tl_view = "chart"
    /\ Len(timeline) >= 4
    /\ \E k \in 3..Len(timeline) :
         /\ RowsIn(k) = {} /\ RowsIn(k - 1) = {}
         /\ timeline[k].volume = 0
         /\ timeline[k].avg_sentiment = <<-40, 2>>

\* the value of a digit character, 10 for any other character
DigitValue(c) ==
    IF \E d \in 1..10 : DigitChars[d] = c
    THEN (CHOOSE d \in 1..10 : DigitChars[d] = c) - 1
    ELSE 10

RECURSIVE ParseNat(_)
\* the number a sequence of digit characters writes
ParseNat(cs) ==
    IF cs = <<>> THEN 0
    ELSE ParseNat(SubSeq(cs, 1, Len(cs) - 1)) * 10 + DigitValue(cs[Len(cs)])

C19_Top30 ==
    ng_state = "chips" =>
        LET distinct == Cardinality(Vocabulary(df_text))
        IN  /\ Len(chips) = (IF distinct < 30 THEN distinct ELSE 30)
            /\ \A i \in 1..Len(chips) : \A j \in i..Len(chips) :
                  chips[i].count >= chips[j].count

\* the frame behind the view does hold min(30, distinct) terms, the most
\* frequent ones, in non-increasing order of count
NgramsFrameTop30 ==
    ng_state = "chips" =>
        LET V == Vocabulary(df_text)
            kept == {freq_df[i].term : i \in 1..Len(freq_df)}
        IN  /\ Len(freq_df) = (IF Cardinality(V) < 30 THEN Cardinality(V) ELSE 30)
            /\ Cardinality(kept) = Len(freq_df)
            /\ \A i \in 1..Len(freq_df) :
                  /\ freq_df[i].term \in V
                  /\ freq_df[i].count = TermCount(freq_df[i].term, df_text)
                  /\ \A j \in i..Len(freq_df) :
                        freq_df[i].count >= freq_df[j].count
                  /\ \A t \in V \ kept :
                        TermCount(t, df_text) <= freq_df[i].count

\* C20: whenever clustering has run over n posts, the number of clusters
\* requested is 2 for n < 30, n // 10 for 30 <= n < 60 and 6 for n >= 60.
C20_ClusterCount ==
    cl_view = "clusters" =>
        /\ n_clusters = (IF n_posts < 30 THEN 2
                         ELSE IF n_posts < 60 THEN n_posts \div 10
                         ELSE 6)
        /\ 2 <= n_clusters /\ n_clusters <= 6

C20_Witness ==
    /\ cl_view = "clusters"
    /\ n_posts = 45
    /\ n_clusters = 4

\* clustering runs for every frame of two rows or more that has the column
ClusteringRuns ==
    cl_view # "pending" =>
        (cl_view = "clusters" <=> (has_embedding /\ n_posts >= 2))

\* C21: when the cluster section has run over exactly one post, it shows
\* "Not enough data to form clusters." (the algorithm neither runs nor
\* fails); and the number of clusters requested never exceeds the number of
\* posts.
C21_TooFewPosts ==
    (cl_view # "pending" /\ has_embedding /\ n_posts > 0) =>
        /\ n_posts = 1 => cl_view = "Not enough data to form clusters."
        /\ n_clusters <= n_posts

\* C22: when the cluster section has run over exactly 5 posts, it shows
\* "Not enough data to form clusters." rather than clusters or an error.
C22_DegradationAtFive ==
    (cl_view # "pending" /\ has_embedding /\ n_posts = 5) =>
        cl_view = "Not enough data to form clusters."

\* C23: when a script run has ended, every view whose computation raised is
\* in an unavailable state (the fallback of the section, or the exception in
\* its place) and every other view has been produced.
C23_ViewsIndependent ==
    page_pc \in {"done", "stopped"} =>
        \A v \in Views :
            IF \E c \in raised : ViewOf(c) = v
            THEN view[v] \in {"unavailable", "exception"}
            ELSE view[v] \in {"shown", "placeholder"}

\* the part of it that holds: a failure the section catches (volume change,
\* top subreddit, clustering, the live read) leaves every other view produced
CaughtFailuresIndependent ==
    (page_pc = "done") =>
        \A v \in Views :
            IF \E c \in raised : ViewOf(c) = v
            THEN view[v] = "unavailable"
            ELSE view[v] \in {"shown", "placeholder"}

\* word is a substring of text, letter case set aside
Contains(text, word) ==
    /\ text # Null
    /\ \E i \in 1..(Len(text) - Len(word) + 1) :
          SubSeq(LowerText(text), i, i + Len(word) - 1) = LowerText(word)

\* the predicate of the claim, the keyword taken as trimmed
QueryPredicate(r) ==
    /\ \/ Contains(r.title, strip(q_keyword))
       \/ Contains(r.body, strip(q_keyword))
       \/ Contains(r.keyword, strip(q_keyword))
    /\ q_sources = {} \/ r.source \in q_sources
    /\ r.created_at >= q_start

RowsOfRead(read) == {read.rows[i] : i \in 1..Len(read.rows)}

\* C24: a read that is not cut short by its limit returns a post iff the
\* keyword is a case-insensitive substring of its title, body or keyword
\* field, and its source is among the sources (when any is chosen), and it
\* was created at or after the start of the window.
C24_QueryPredicate ==
    /\ agg.done =>
          \A r \in stored : r \in RowsOfRead(agg) <=> QueryPredicate(r)
    /\ (live[1].done /\ Cardinality(stored) <= page_size) =>
          \A r \in stored : r \in RowsOfRead(live[1]) <=> QueryPredicate(r)

\* the same without a LIKE wildcard in the keyword
C24_PlainKeywords ==
    (\A i \in 1..Len(q_keyword) : q_keyword[i] \notin {"_", "%"}) =>
        C24_QueryPredicate

\* C25: the pages read are the slices (p-1)*s .. p*s-1 of one sequence of
\* the matching posts ordered by created_at descending, so two pages share
\* no post; and the aggregation read is a prefix of such a sequence, of at
\* most 500 posts.
C25_Pagination ==
    /\ \E o \in Orders(Matching(stored, q_keyword, q_sources, q_start)) :
          \A p \in 1..MaxPage :
             live[p].done =>
                live[p].rows = range(o, (p - 1) * page_size, page_size)
    /\ \A p \in 1..MaxPage : \A q \in 1..MaxPage :
          (p # q /\ live[p].done /\ live[q].done) =>
             RowsOfRead(live[p]) \cap RowsOfRead(live[q]) = {}
    /\ agg.done =>
          /\ Len(agg.rows) <= 500
          /\ \E o \in Orders(Matching(stored, q_keyword, q_sources, q_start)) :
                agg.rows = range(o, 0, 500)

\* each single read is ordered by created_at descending and holds the right
\* number of matching posts
ReadsOrdered ==
    \A p \in 1..MaxPage :
       live[p].done =>
          /\ \A i \in 1..Len(live[p].rows) : \A j \in i..Len(live[p].rows) :
                live[p].rows[i].created_at >= live[p].rows[j].created_at
          /\ RowsOfRead(live[p]) \subseteq
                Matching(stored, q_keyword, q_sources, q_start)
          /\ Len(live[p].rows) <= page_size

C26_FlagSet ==
    (ui_pc = "script" /\ run_calls = <<>>) =>
        (should_collect <=> trigger = "submit")

C27_BatchIdsDistinct ==
    \A r \in Runs :
        \A i, j \in 1..Len(log[r].payload) :
            i # j => log[r].payload[i].id # log[r].payload[j].id

\* C28: every embeddings row refers to a post of the posts table; a run
\* issues its embeddings write only after its posts insert succeeded, every
\* row it writes has the post_id of a post that run inserted, and a run whose
\* insert failed or was skipped writes no embeddings row.
C28_EmbeddingsIntegrity ==
    /\ \A e \in embeddings : \E q \in posts : q.id = e.post_id
    /\ \A r \in Runs :
          /\ log[r].embCalls > 0 =>
                /\ log[r].inserts = 1
                /\ ~log[r].conflict /\ ~log[r].outage
                /\ log[r].inserted # {}
          /\ \A e \in log[r].embWritten :
                \E q \in log[r].inserted : q.id = e.post_id
          /\ log[r].inserted = {} =>
                log[r].embCalls = 0 /\ log[r].embWritten = {}

C28_Witness ==
    \E r1, r2 \in Runs :
        /\ r1 # r2 /\ Done(r1) /\ Done(r2)
        /\ log[r1].embWritten # {}
        /\ embeddings # {}
        /\ log[r2].conflict
        /\ log[r2].embWritten = {}
====
